---- MODULE Spec2Model ----
(***************************************************************************)
(* Model of the rule-content parser (content/content.go) and of the group  *)
(* tag validation loop of the content checker (main).                      *)
(*                                                                         *)
(* A directory is a path, a sequence of names; the content of a file is    *)
(* the path of the file, so that two files never have equal contents and   *)
(* the empty string is the empty sequence.                                 *)
(***************************************************************************)
EXTENDS Integers, Sequences, FiniteSets, TLC

\* ------------------------------------------------------------------ bounds
MaxDepth == 2       \* nesting depth of directories below a root
MaxDirs == 3        \* directories below the two roots, in total
MaxFaults == 1      \* faulty files drawn for one rule directory

\* ------------------------------------------------------- the content tree
DirNames == <<"a", "b">>     \* ReadDir lists entries sorted by name
External == <<"external">>
Internal == <<"internal">>
Roots == {External, Internal}
ConfigPath == <<"config.yaml">>

ContentFiles == <<"summary.md", "reason.md", "resolution.md", "more_info.md">>
YamlFiles == <<"plugin.yaml">>
KeyContentFiles == <<"generic.md">>
KeyYamlFiles == <<"metadata.yaml">>

Range(s) == {s[i] : i \in 1..Len(s)}

IsPrefix(p, q) == Len(p) <= Len(q) /\ SubSeq(q, 1, Len(p)) = p

Parent(p) == SubSeq(p, 1, Len(p) - 1)

Name(p) == p[Len(p)]

RECURSIVE PathsBelow(_, _)
PathsBelow(p, k) ==
    IF k = 0 THEN {}
    ELSE LET kids == {Append(p, n) : n \in Range(DirNames)}
         IN kids \cup UNION {PathsBelow(c, k - 1) : c \in kids}

AllPaths == PathsBelow(External, MaxDepth) \cup PathsBelow(Internal, MaxDepth)

\* Every tree of at most k directories below the roots.
RECURSIVE Trees(_)
Trees(k) ==
    IF k = 0 THEN {{}}
    ELSE LET prev == Trees(k - 1)
         IN prev \cup UNION {{T \cup {p} :
                                   p \in {q \in AllPaths : Parent(q) \in T \cup Roots}} :
                               T \in prev}

PluginStat == {"none", "regular", "dir"}

\* ------------------------------------------------------------------ values
NoPath == <<>>
NoError == [kind |-> "nil", path |-> NoPath]

EmptyMap == [x \in {} |-> <<>>]

Put(m, k, v) == [x \in DOMAIN m \cup {k} |-> IF x = k THEN v ELSE m[x]]

EmptyRuleContent ==
    [Summary |-> <<>>, Reason |-> <<>>, Resolution |-> <<>>, MoreInfo |-> <<>>,
     Plugin |-> <<>>, ErrorKeys |-> EmptyMap]

EmptyConfig == [Impact |-> <<>>]

EmptyDirectory == [Config |-> EmptyConfig, Rules |-> EmptyMap]

VARIABLES
    dirs,        \* the directories below the roots
    plugin,      \* what Stat finds at <dir>/plugin.yaml, for every directory
    fs,          \* the state found of every file read and directory listed
    phase,       \* position in ParseRuleContentDir
    stack,       \* the frames of parseRulesInDir: directory and entries left
    contentDir,  \* the RuleContentDirectory under construction
    ret,         \* the RuleContentDirectory returned
    err,         \* the error returned
    raised,      \* the error value at the place that produced it
    origin,      \* the operation and directory that produced it
    lastParse,   \* what the last call of parseRuleContent returned
    trace        \* the operations done so far, in order

walkVars == <<dirs, plugin, fs, phase, stack, contentDir, ret, err, raised,
              origin, lastParse, trace>>

VARIABLES
    groupCfg,    \* the groups of the group configuration, in file order
    ruleTags,    \* Metadata.Tags of every error key of the parsed content
    pending,     \* the error keys the loops have not reached yet
    cur,         \* the error key of the current iteration
    tagsLeft,    \* the tags of the current error key still to check
    errGroups,   \* the tag-to-group map of the current error key
    defects,     \* the errors logged, in order
    report,      \* the map logged for every error key done
    vphase       \* position in main

checkVars == <<groupCfg, ruleTags, pending, cur, tagsLeft, errGroups, defects, report, vphase>>

vars == <<walkVars, checkVars>>

Ev(op, p) == [op |-> op, path |-> p]

\* ------------------------------------------------------------ file access
\* ioutil.ReadFile: the bytes, or a *PathError holding the path.  A file is
\* "unreadable" when it is missing or cannot be opened or read.
ReadFile(p, st) ==
    IF st = "unreadable" THEN [data |-> <<>>, err |-> [kind |-> "open", path |-> p]]
    ELSE [data |-> p, err |-> NoError]

\* ioutil.ReadDir: the subdirectories in name order, or a *PathError.
Entries(d) == SelectSeq(DirNames, LAMBDA n : Append(d, n) \in dirs)

ReadDir(d, st) ==
    IF st = "ok" THEN [entries |-> Entries(d), err |-> NoError]
    ELSE [entries |-> <<>>, err |-> [kind |-> "open", path |-> d]]

\* yaml.Unmarshal is given the bytes only: its error cannot name a file.
YamlUnmarshal(data, st) ==
    IF st = "malformed" THEN [doc |-> <<>>, err |-> [kind |-> "yaml", path |-> NoPath]]
    ELSE [doc |-> data, err |-> NoError]

\* --------------------------------------------------------- file-set loader
RECURSIVE ReadFileSet(_, _, _)
ReadFileSet(baseDir, filelist, o) ==
    IF filelist = <<>> THEN [files |-> EmptyMap, err |-> NoError]
    ELSE LET name == Head(filelist)
             r == ReadFile(Append(baseDir, name), o[Append(baseDir, name)])
             rest == ReadFileSet(baseDir, Tail(filelist), o)
         IN IF r.err # NoError THEN [files |-> EmptyMap, err |-> r.err]
            ELSE IF rest.err # NoError THEN rest
            ELSE [files |-> Put(rest.files, name, r.data), err |-> NoError]

ReadFilesIntoByteArray(baseDir, filelist, o) == ReadFileSet(baseDir, filelist, o)

ReadFilesIntoString(baseDir, filelist, o) == ReadFileSet(baseDir, filelist, o)

\* ------------------------------------------------------ rule directories
\* The loop of parseErrorContents over the entries of the rule directory.
RECURSIVE ErrorContentsLoop(_, _, _, _)
ErrorContentsLoop(ruleDirPath, entries, errorContents, o) ==
    IF entries = <<>> THEN [keys |-> errorContents, err |-> NoError]
    ELSE LET name == Head(entries)
             keyDir == Append(ruleDirPath, name)
             readStrings == ReadFilesIntoString(keyDir, KeyContentFiles, o)
             readBytes == ReadFilesIntoByteArray(keyDir, KeyYamlFiles, o)
             meta == YamlUnmarshal(readBytes.files["metadata.yaml"],
                                   o[Append(keyDir, "metadata.yaml")])
             errContent == [Generic |-> readStrings.files["generic.md"],
                            Metadata |-> meta.doc]
         IN IF readStrings.err # NoError
              THEN [keys |-> errorContents, err |-> readStrings.err]
            ELSE IF readBytes.err # NoError
              THEN [keys |-> errorContents, err |-> readBytes.err]
            ELSE IF meta.err # NoError
              THEN [keys |-> errorContents, err |-> meta.err]
            ELSE ErrorContentsLoop(ruleDirPath, Tail(entries),
                                   Put(errorContents, name, errContent), o)

\* The loop with a faulty error key skipped instead of reported.
RECURSIVE ErrorContentsLoopSkipping(_, _, _, _)
ErrorContentsLoopSkipping(ruleDirPath, entries, errorContents, o) ==
    IF entries = <<>> THEN [keys |-> errorContents, err |-> NoError]
    ELSE LET name == Head(entries)
             keyDir == Append(ruleDirPath, name)
             readStrings == ReadFilesIntoString(keyDir, KeyContentFiles, o)
             readBytes == ReadFilesIntoByteArray(keyDir, KeyYamlFiles, o)
             meta == YamlUnmarshal(readBytes.files["metadata.yaml"],
                                   o[Append(keyDir, "metadata.yaml")])
             errContent == [Generic |-> readStrings.files["generic.md"],
                            Metadata |-> meta.doc]
         IN IF readStrings.err # NoError \/ readBytes.err # NoError \/ meta.err # NoError
              THEN ErrorContentsLoopSkipping(ruleDirPath, Tail(entries), errorContents, o)
            ELSE ErrorContentsLoopSkipping(ruleDirPath, Tail(entries),
                                           Put(errorContents, name, errContent), o)

ParseErrorContentsSkipping(ruleDirPath, o) ==
    LET listing == ReadDir(ruleDirPath, o[ruleDirPath])
    IN IF listing.err # NoError THEN [keys |-> EmptyMap, err |-> listing.err]
       ELSE ErrorContentsLoopSkipping(ruleDirPath, listing.entries, EmptyMap, o)

ParseErrorContents(ruleDirPath, o) ==
    LET listing == ReadDir(ruleDirPath, o[ruleDirPath])
    IN IF listing.err # NoError THEN [keys |-> EmptyMap, err |-> listing.err]
       ELSE ErrorContentsLoop(ruleDirPath, listing.entries, EmptyMap, o)

ParseRuleContent(ruleDirPath, o) ==
    LET errorContents == ParseErrorContents(ruleDirPath, o)
        readStrings == ReadFilesIntoString(ruleDirPath, ContentFiles, o)
        readBytes == ReadFilesIntoByteArray(ruleDirPath, YamlFiles, o)
        plug == YamlUnmarshal(readBytes.files["plugin.yaml"],
                              o[Append(ruleDirPath, "plugin.yaml")])
        failed(e) == [content |-> EmptyRuleContent, err |-> e]
    IN IF errorContents.err # NoError THEN failed(errorContents.err)
       ELSE IF readStrings.err # NoError THEN failed(readStrings.err)
       ELSE IF readBytes.err # NoError THEN failed(readBytes.err)
       ELSE IF plug.err # NoError THEN failed(plug.err)
       ELSE [content |-> [Summary |-> readStrings.files["summary.md"],
                          Reason |-> readStrings.files["reason.md"],
                          Resolution |-> readStrings.files["resolution.md"],
                          MoreInfo |-> readStrings.files["more_info.md"],
                          Plugin |-> plug.doc,
                          ErrorKeys |-> errorContents.keys],
             err |-> NoError]

\* parseGlobalContentConfig: a decoding error leaves conf as far as it was decoded.
ParseGlobalContentConfig(configPath, st, partial) ==
    LET r == ReadFile(configPath, st)
        y == YamlUnmarshal(r.data, st)
    IN IF r.err # NoError THEN [conf |-> EmptyConfig, err |-> r.err]
       ELSE IF y.err # NoError THEN [conf |-> [Impact |-> partial], err |-> y.err]
       ELSE [conf |-> [Impact |-> y.doc], err |-> NoError]

\* --------------------------------------------- the state of the file system
\* The places parseRuleContent reads in a rule directory.
Sites(d) ==
    {d} \cup {Append(d, f) : f \in Range(ContentFiles) \cup Range(YamlFiles)}
        \cup {Append(Append(d, n), f) :
                n \in Range(Entries(d)), f \in Range(KeyContentFiles) \cup Range(KeyYamlFiles)}

\* What can be wrong at a place: only a YAML file can be malformed.
Faults(s) ==
    IF s \in dirs THEN {"unreadable"}
    ELSE IF Name(s) \in Range(YamlFiles) \cup Range(KeyYamlFiles)
      THEN {"unreadable", "malformed"}
    ELSE {"unreadable"}

RECURSIVE FaultMaps(_, _)
FaultMaps(S, k) ==
    IF k = 0 THEN {EmptyMap}
    ELSE LET prev == FaultMaps(S, k - 1)
         IN prev \cup UNION {UNION {{Put(m, s, f) : f \in Faults(s)} :
                                        s \in S \ DOMAIN m} :
                               m \in prev}

Oracles(d) ==
    {[s \in Sites(d) |-> IF s \in DOMAIN m THEN m[s] ELSE "ok"] :
        m \in FaultMaps(Sites(d), MaxFaults)}

Merge(f, g) == [x \in DOMAIN f \cup DOMAIN g |-> IF x \in DOMAIN g THEN g[x] ELSE f[x]]

\* ------------------------------------------------------------ the tree walk
WalkPhases == {"walkExternal", "walkInternal"}

RootOf(ph) == IF ph \in {"callExternal", "walkExternal"} THEN External ELSE Internal

\* os.Stat succeeded and the mode is that of a regular file.
IsRuleDirAnyStat(subdir) == plugin[subdir] # "none"

IsRuleDir(subdir) == plugin[subdir] = "regular"

\* `if err != nil { return err }` after parseRuleContent.
RuleErrorIgnored(e) == FALSE

RuleErrorAborts(e) == e # NoError

\* (*contentMap)[name] = ruleContent
InsertKeepingFirst(contentMap, name, ruleContent) ==
    IF name \in DOMAIN contentMap THEN contentMap ELSE Put(contentMap, name, ruleContent)

Insert(contentMap, name, ruleContent) == Put(contentMap, name, ruleContent)

\* `return contentDir, err` after a failed walk.
ReturnedNothing(cd) == EmptyDirectory

ReturnedOnWalkError(cd) == cd

\* `if err != nil { return RuleContentDirectory{}, err }` after the config load.
ConfigErrorIgnored(e) == FALSE

ConfigErrorAborts(e) == e # NoError

Top == stack[Len(stack)]

Advance == [stack EXCEPT ![Len(stack)].todo = Tail(@)]

WalkInit ==
    /\ dirs \in Trees(MaxDirs)
    \* Each root holds a plugin.yaml of its own, which the walk never looks at.
    /\ plugin \in {f \in [dirs \cup Roots -> PluginStat] :
                     \A r \in Roots : f[r] = "regular"}
    /\ fs = EmptyMap
    /\ phase = "start"
    /\ stack = <<>>
    /\ contentDir = EmptyDirectory
    /\ ret = EmptyDirectory
    /\ err = NoError
    /\ raised = NoError
    /\ origin = [kind |-> "none", dir |-> NoPath]
    /\ lastParse = [content |-> EmptyRuleContent, err |-> NoError]
    /\ trace = <<>>

\* ParseRuleContentDir, up to the first walk.
LoadConfig ==
    /\ phase = "start"
    /\ \E st \in {"ok", "unreadable", "malformed"}, partial \in {<<>>, ConfigPath} :
         LET r == ParseGlobalContentConfig(ConfigPath, st, partial)
         IN /\ fs' = Put(fs, ConfigPath, st)
            /\ trace' = Append(trace, Ev("config", ConfigPath))
            /\ raised' = r.err
            /\ IF ConfigErrorAborts(r.err)
                 THEN /\ phase' = "done"
                      /\ ret' = EmptyDirectory
                      /\ err' = r.err
                      /\ origin' = [kind |-> "config", dir |-> NoPath]
                      /\ UNCHANGED contentDir
                 ELSE /\ phase' = "callExternal"
                      /\ contentDir' = [Config |-> r.conf, Rules |-> EmptyMap]
                      /\ UNCHANGED <<ret, err, origin>>
    /\ UNCHANGED <<dirs, plugin, stack, lastParse>>
    /\ UNCHANGED checkVars

\* The failure of a walk: the error goes up through every frame unchanged,
\* ParseRuleContentDir logs which root failed and returns.
WalkFails(e, kind, d, events) ==
    /\ raised' = e
    /\ origin' = [kind |-> kind, dir |-> d]
    /\ err' = e
    /\ ret' = ReturnedOnWalkError(contentDir)
    /\ phase' = "done"
    /\ stack' = <<>>
    /\ trace' = trace \o events \o <<Ev("log", RootOf(phase))>>
    /\ UNCHANGED contentDir

\* parseRulesInDir called on a root: the directory is listed.
CallRoot ==
    /\ phase \in {"callExternal", "callInternal"}
    /\ \E st \in {"ok", "unreadable"} :
         LET root == RootOf(phase)
             listing == ReadDir(root, st)
         IN /\ fs' = Put(fs, root, st)
            /\ IF listing.err # NoError
                 THEN WalkFails(listing.err, "readdir", root, <<Ev("readdir", root)>>)
                 ELSE /\ stack' = <<[dir |-> root, todo |-> listing.entries]>>
                      /\ phase' = IF phase = "callExternal" THEN "walkExternal"
                                                            ELSE "walkInternal"
                      /\ trace' = Append(trace, Ev("readdir", root))
                      /\ UNCHANGED <<contentDir, ret, err, raised, origin>>
    /\ UNCHANGED <<dirs, plugin, lastParse>>
    /\ UNCHANGED checkVars

\* One entry of the loop, a directory holding a regular plugin.yaml.
VisitRule ==
    /\ phase \in WalkPhases
    /\ stack # <<>>
    /\ Top.todo # <<>>
    /\ LET name == Head(Top.todo)
           subdirPath == Append(Top.dir, name)
       IN /\ IsRuleDir(subdirPath)
          /\ \E o \in Oracles(subdirPath) :
               LET r == ParseRuleContent(subdirPath, o)
                   seen == <<Ev("stat", subdirPath), Ev("parse", subdirPath)>>
               IN /\ fs' = Merge(fs, o)
                  /\ lastParse' = r
                  /\ IF RuleErrorAborts(r.err)
                       THEN WalkFails(r.err, "rule", subdirPath, seen)
                       ELSE /\ contentDir' =
                                 [contentDir EXCEPT !.Rules = Insert(@, name, r.content)]
                            /\ stack' = Advance
                            /\ trace' = trace \o seen \o <<Ev("insert", subdirPath)>>
                            /\ raised' = IF r.err # NoError THEN r.err ELSE raised
                            /\ origin' = IF r.err # NoError
                                           THEN [kind |-> "rule", dir |-> subdirPath]
                                           ELSE origin
                            /\ UNCHANGED <<phase, ret, err>>
    /\ UNCHANGED <<dirs, plugin>>
    /\ UNCHANGED checkVars

\* One entry of the loop, any other directory: parseRulesInDir is called on it.
VisitNamespace ==
    /\ phase \in WalkPhases
    /\ stack # <<>>
    /\ Top.todo # <<>>
    /\ LET name == Head(Top.todo)
           subdirPath == Append(Top.dir, name)
       IN /\ ~IsRuleDir(subdirPath)
          /\ \E st \in {"ok", "unreadable"} :
               LET listing == ReadDir(subdirPath, st)
                   seen == <<Ev("stat", subdirPath), Ev("readdir", subdirPath)>>
               IN /\ fs' = Put(fs, subdirPath, st)
                  /\ IF listing.err # NoError
                       THEN WalkFails(listing.err, "readdir", subdirPath, seen)
                       ELSE /\ stack' = Append(Advance,
                                               [dir |-> subdirPath, todo |-> listing.entries])
                            /\ trace' = trace \o seen
                            /\ UNCHANGED <<phase, contentDir, ret, err, raised, origin>>
    /\ UNCHANGED <<dirs, plugin, lastParse>>
    /\ UNCHANGED checkVars

\* The loop of a frame is over: parseRulesInDir returns nil.
ReturnFromDir ==
    /\ phase \in WalkPhases
    /\ stack # <<>>
    /\ Top.todo = <<>>
    /\ stack' = SubSeq(stack, 1, Len(stack) - 1)
    /\ IF Len(stack) > 1 THEN UNCHANGED <<phase, ret, err>>
       ELSE IF phase = "walkExternal"
         THEN /\ phase' = "callInternal"
              /\ UNCHANGED <<ret, err>>
         ELSE /\ phase' = "done"
              /\ ret' = contentDir
              /\ err' = NoError
    /\ UNCHANGED <<dirs, plugin, fs, contentDir, raised, origin, lastParse, trace>>
    /\ UNCHANGED checkVars

\* ------------------------------------------------- the group tag validation
MaxTags == 3        \* tags of one error key
MaxGroups == 2      \* groups of the group configuration

Tags == {"t1", "t2"}
GroupNames == {"g1", "g2"}
ErrorKeyIds == {<<"r1", "k1">>, <<"r2", "k1">>}
NoKey == <<>>

RECURSIVE SeqsUpTo(_, _)
SeqsUpTo(S, k) ==
    IF k = 0 THEN {<<>>}
    ELSE LET prev == SeqsUpTo(S, k - 1)
         IN prev \cup {Append(q, x) : q \in prev, x \in S}

GroupTagLists == {q \in SeqsUpTo(Tags, Cardinality(Tags)) :
                     \A i, j \in 1..Len(q) : i # j => q[i] # q[j]}

Groups == {[Name |-> n, Tags |-> q] : n \in GroupNames, q \in GroupTagLists}

\* `for _, tag := range group.Tags { if tag == errTag { ...; break } }`
GroupHasTag(group, errTag) == \E i \in 1..Len(group.Tags) : group.Tags[i] = errTag

\* `for _, group := range groupCfg`: every group is looked at, the inner
\* break leaves only the loop over the tags of one group.
RECURSIVE FindGroup(_, _, _)
FindGroup(groups, errTag, eg) ==
    IF groups = <<>> THEN eg
    ELSE FindGroup(Tail(groups), errTag,
                   IF GroupHasTag(Head(groups), errTag)
                     THEN Put(eg, errTag, Head(groups).Name)
                     ELSE eg)

Defect(kind, key, tag) == [kind |-> kind, rule |-> key[1], errCode |-> key[2], tag |-> tag]

WalkIdle ==
    /\ dirs = {}
    /\ plugin = [r \in Roots |-> "none"]
    /\ fs = EmptyMap
    /\ phase = "done"
    /\ stack = <<>>
    /\ contentDir = EmptyDirectory
    /\ ret = EmptyDirectory
    /\ err = NoError
    /\ raised = NoError
    /\ origin = [kind |-> "none", dir |-> NoPath]
    /\ lastParse = [content |-> EmptyRuleContent, err |-> NoError]
    /\ trace = <<>>

CheckIdle ==
    /\ groupCfg = <<>>
    /\ ruleTags = EmptyMap
    /\ pending = {}
    /\ cur = NoKey
    /\ tagsLeft = <<>>
    /\ errGroups = EmptyMap
    /\ defects = <<>>
    /\ report = EmptyMap
    /\ vphase = "idle"

\* main after both files are parsed: the loops are about to start.
CheckInit ==
    /\ groupCfg \in SeqsUpTo(Groups, MaxGroups)
    /\ ruleTags \in [ErrorKeyIds -> SeqsUpTo(Tags, MaxTags)]
    /\ pending = ErrorKeyIds
    /\ cur = NoKey
    /\ tagsLeft = <<>>
    /\ errGroups = EmptyMap
    /\ defects = <<>>
    /\ report = EmptyMap
    /\ vphase = "run"

\* The next error key of the range over the maps, in any order.  The warnings
\* about empty attributes and files logged on the way read the content only.
StartKey ==
    /\ vphase = "run"
    /\ cur = NoKey
    /\ \E k \in pending :
         /\ cur' = k
         /\ pending' = pending \ {k}
         /\ tagsLeft' = ruleTags[k]
    /\ errGroups' = EmptyMap
    /\ UNCHANGED <<groupCfg, ruleTags, defects, report, vphase>>
    /\ UNCHANGED walkVars

\* One tag of the error key.
CheckTag ==
    /\ vphase = "run"
    /\ cur # NoKey
    /\ tagsLeft # <<>>
    /\ LET errTag == Head(tagsLeft)
           dup == IF errTag \in DOMAIN errGroups
                    THEN <<Defect("duplicate", cur, errTag)>> ELSE <<>>
           found == FindGroup(groupCfg, errTag, errGroups)
           inv == IF errTag \notin DOMAIN found
                    THEN <<Defect("invalid", cur, errTag)>> ELSE <<>>
       IN /\ errGroups' = found
          /\ defects' = defects \o dup \o inv
    /\ tagsLeft' = Tail(tagsLeft)
    /\ UNCHANGED <<groupCfg, ruleTags, pending, cur, report, vphase>>
    /\ UNCHANGED walkVars

\* The tags are done: the map of the error key is logged.
FinishKey ==
    /\ vphase = "run"
    /\ cur # NoKey
    /\ tagsLeft = <<>>
    /\ report' = Put(report, cur, errGroups)
    /\ cur' = NoKey
    /\ vphase' = IF pending = {} THEN "done" ELSE "run"
    /\ UNCHANGED <<groupCfg, ruleTags, pending, tagsLeft, errGroups, defects>>
    /\ UNCHANGED walkVars

WalkNext == LoadConfig \/ CallRoot \/ VisitRule \/ VisitNamespace \/ ReturnFromDir

CheckNext == StartKey \/ CheckTag \/ FinishKey

Init == WalkInit /\ CheckIdle

Next == WalkNext

Spec == Init /\ [][Next]_vars

InitCheck == WalkIdle /\ CheckInit

SpecCheck == InitCheck /\ [][CheckNext]_vars

\* ------------------------------------------------ what the walk should find
RootRank(n) == IF n = "external" THEN 1 ELSE 2

Rank(n) == IF n \in {"external", "internal"} THEN RootRank(n)
           ELSE CHOOSE i \in 1..Len(DirNames) : DirNames[i] = n

\* p comes after d in enumeration order (the directories below d included).
After(d, p) ==
    \E k \in 1..Len(p) :
        /\ k <= Len(d) + 1
        /\ SubSeq(p, 1, k - 1) = SubSeq(d, 1, k - 1)
        /\ k > Len(d) \/ Rank(p[k]) > Rank(d[k])

\* The ancestors of d strictly below its root.
Ancestors(d) == {SubSeq(d, 1, k) : k \in 2..(Len(d) - 1)}

HasPluginFile(d) == plugin[d] = "regular"

ExpectedRuleDirs ==
    {d \in dirs : HasPluginFile(d) /\ \A a \in Ancestors(d) : ~HasPluginFile(a)}

ExpectedNamespaces ==
    {d \in dirs : ~HasPluginFile(d) /\ \A a \in Ancestors(d) : ~HasPluginFile(a)}

SubdirNames(d) == {n \in Range(DirNames) : Append(d, n) \in dirs}

ExpectedContent(d) ==
    [Summary |-> Append(d, "summary.md"),
     Reason |-> Append(d, "reason.md"),
     Resolution |-> Append(d, "resolution.md"),
     MoreInfo |-> Append(d, "more_info.md"),
     Plugin |-> Append(d, "plugin.yaml"),
     ErrorKeys |-> [n \in SubdirNames(d) |->
                      [Generic |-> Append(Append(d, n), "generic.md"),
                       Metadata |-> Append(Append(d, n), "metadata.yaml")]]]

Happened(op, d) == \E i \in 1..Len(trace) : trace[i] = Ev(op, d)

Inserts(n) == {i \in 1..Len(trace) : trace[i].op = "insert" /\ Name(trace[i].path) = n}

LastInsert(n) == CHOOSE i \in Inserts(n) : \A j \in Inserts(n) : j <= i

InsertedNames == {Name(trace[i].path) : i \in {j \in 1..Len(trace) : trace[j].op = "insert"}}

\* The map the insertions so far should have left.
ExpectedRules == [n \in InsertedNames |-> ExpectedContent(trace[LastInsert(n)].path)]

\* The files a rule directory must hold, its error keys' files included.
RequiredFiles(d) ==
    {Append(d, f) : f \in {"summary.md", "reason.md", "resolution.md", "more_info.md",
                           "plugin.yaml"}}
      \cup {Append(Append(d, n), f) : n \in SubdirNames(d), f \in {"generic.md", "metadata.yaml"}}

Faulty(d) == \E s \in RequiredFiles(d) : fs[s] # "ok"

\* ------------------------------------------------------------------ claims
\* C4: when parseRuleContent fails for a rule directory the walk stops at
\* once: the call is over, its error is the error value raised at the failing
\* file, and no directory after the failing one in enumeration order (the
\* internal root included, when the failure is under the external root) has
\* been classified, listed or parsed.
C4_WalkAbortsOnRuleFailure ==
    origin.kind = "rule" =>
        /\ phase = "done"
        /\ err # NoError
        /\ err = raised
        /\ trace[Len(trace) - 1] = Ev("parse", origin.dir)
        /\ \A i \in 1..Len(trace) :
              trace[i].op \in {"stat", "parse", "readdir", "insert"}
                  => ~After(origin.dir, trace[i].path)

\* A rule directory failed under the external root with directories after it.
C4_Witness ==
    /\ phase = "done"
    /\ origin.kind = "rule"
    /\ origin.dir[1] = "external"
    /\ \E p \in dirs : p[1] = "external" /\ After(origin.dir, p) /\ ~IsPrefix(origin.dir, p)
    /\ \E p \in dirs : p[1] = "internal"

\* C5: after a successful ParseRuleContentDir the keys of Rules are exactly
\* the names of the directories strictly below a root that hold a regular
\* plugin.yaml and have no such ancestor below the root; every other
\* directory on the way was listed as a namespace, and a root is never
\* classified, whatever it holds.
C5_RuleKeysAreRuleDirs ==
    (phase = "done" /\ err = NoError) =>
        /\ DOMAIN ret.Rules = {Name(d) : d \in ExpectedRuleDirs}
        /\ \A d \in ExpectedRuleDirs : Happened("parse", d) /\ ~Happened("readdir", d)
        /\ \A d \in ExpectedNamespaces : Happened("readdir", d) /\ ~Happened("parse", d)
        /\ \A r \in Roots : ~Happened("stat", r) /\ ~Happened("parse", r)

\* A successful run over roots holding a plugin.yaml, with a rule at the top
\* of a root and a rule nested in a namespace whose plugin.yaml is a directory.
C5_Witness ==
    /\ phase = "done"
    /\ err = NoError
    /\ plugin[External] = "regular"
    /\ \E d \in ExpectedRuleDirs : Len(d) = 2
    /\ \E d \in ExpectedRuleDirs : Len(d) = 3 /\ plugin[Parent(d)] = "dir"

\* C6: parseRuleContent fails, with an empty RuleContent and an error,
\* whenever one of the five files of the rule directory, or generic.md or
\* metadata.yaml of one of its subdirectories, is missing, unreadable or
\* malformed; the rule is then not inserted into the accumulator.
C6_FaultyRuleDirFails ==
    \A d \in dirs :
        (Happened("parse", d) /\ Faulty(d)) =>
            /\ lastParse.content = EmptyRuleContent
            /\ lastParse.err # NoError
            /\ ~Happened("insert", d)
            /\ \A n \in DOMAIN contentDir.Rules :
                  contentDir.Rules[n].Summary # Append(d, "summary.md")

\* A rule directory was parsed whose error key has a malformed metadata.yaml.
C6_Witness ==
    \E d \in dirs : \E n \in SubdirNames(d) :
        /\ Happened("parse", d)
        /\ fs[Append(Append(d, n), "metadata.yaml")] = "malformed"
        /\ fs[Append(d, "plugin.yaml")] = "ok"

\* C8: at every point of the walk the accumulator maps each rule name to the
\* content of the rule directory of that name parsed last; a second directory
\* of the same name replaces the first without an error, so that when both
\* roots hold the name the internal rule is in the final map.
C8_LastParsedWins ==
    /\ contentDir.Rules = ExpectedRules
    /\ \A n \in InsertedNames :
          (Cardinality(Inserts(n)) > 1 /\ phase # "done") => err = NoError
    /\ (phase = "done" /\ err = NoError) =>
          \A n \in DOMAIN ret.Rules :
              (\E d \in ExpectedRuleDirs : Name(d) = n /\ d[1] = "internal")
                  => ret.Rules[n].Summary[1] = "internal"

\* Both roots hold a rule of the same name and the run succeeded.
C8_Witness ==
    /\ phase = "done"
    /\ err = NoError
    /\ \E n \in InsertedNames :
          \E i, j \in Inserts(n) :
              trace[i].path[1] = "external" /\ trace[j].path[1] = "internal"

\* C9: the global config is loaded once, before any directory is listed; the
\* external root is walked to its end before the internal root is started;
\* when the config cannot be loaded or decoded neither root is walked and the
\* directory returned has no rules.
C9_ConfigFirstThenExternalThenInternal ==
    /\ trace # <<>> =>
          /\ trace[1] = Ev("config", ConfigPath)
          /\ \A i \in 2..Len(trace) : trace[i].op # "config"
    /\ \A i \in 2..(Len(trace) - 1) :
          trace[i].path[1] = "internal" => trace[i + 1].path[1] = "internal"
    /\ (\E i \in 1..Len(trace) : trace[i].path[1] = "internal") =>
          /\ \A d \in ExpectedRuleDirs : d[1] = "external" => Happened("insert", d)
          /\ \A d \in ExpectedNamespaces : d[1] = "external" => Happened("readdir", d)
    /\ (ConfigPath \in DOMAIN fs /\ fs[ConfigPath] # "ok") =>
          /\ phase = "done"
          /\ err # NoError
          /\ trace = <<Ev("config", ConfigPath)>>
          /\ DOMAIN ret.Rules = {}

\* A run that went through both roots, each holding directories.
C9_Witness ==
    /\ phase = "done"
    /\ err = NoError
    /\ \E d \in dirs : d[1] = "external" /\ Happened("stat", d)
    /\ \E d \in dirs : d[1] = "internal" /\ Happened("stat", d)

C7_ErrorNamesTheFile ==
    (phase = "done" /\ origin.kind = "rule") =>
        /\ err.path # NoPath
        /\ IsPrefix(origin.dir, err.path)
        /\ err.path \in DOMAIN fs
        /\ fs[err.path] # "ok"

\* ------------------------------------------- claims of the tag validation
Count(q, x) == Cardinality({i \in 1..Len(q) : q[i] = x})

Logged(kind, key, tag) ==
    Cardinality({i \in 1..Len(defects) : defects[i] = Defect(kind, key, tag)})

GroupsWith(t) == {i \in 1..Len(groupCfg) : \E j \in 1..Len(groupCfg[i].Tags) :
                                              groupCfg[i].Tags[j] = t}

FirstGroupWith(t) == CHOOSE i \in GroupsWith(t) : \A j \in GroupsWith(t) : i <= j

\* C1: when several groups of the list hold a tag of an error key, the
\* association recorded for the tag is the name of the group listed first.
C1_FirstGroupWins ==
    \A k \in DOMAIN report : \A t \in Range(ruleTags[k]) :
        GroupsWith(t) # {} =>
            /\ t \in DOMAIN report[k]
            /\ report[k][t] = groupCfg[FirstGroupWith(t)].Name

\* C2: an error key whose tags hold a tag exactly twice gets exactly one
\* duplicate-tag defect for (rule, error key, tag), whether the tag is in no
\* group, one group or several.
C2_OneDuplicateDefect ==
    vphase = "done" =>
        \A k \in ErrorKeyIds : \A t \in Tags :
            Count(ruleTags[k], t) = 2 => Logged("duplicate", k, t) = 1

\* C3: for every tag of an error key that is in no group, validation logs
\* exactly one orphan-tag defect for (rule, error key, tag), however often the
\* tag occurs, and the map of the error key has no entry for the tag.
C3_OneOrphanDefect ==
    vphase = "done" =>
        \A k \in ErrorKeyIds : \A t \in Range(ruleTags[k]) :
            GroupsWith(t) = {} =>
                /\ Logged("invalid", k, t) = 1
                /\ t \notin DOMAIN report[k]

====
